---- MODULE Spec2Model ----
(***************************************************************************)
(* Model of the day 8 connectivity solver (src/src/day8.rs): the pairwise  *)
(* distance table, the merge engine over a list of circuits, and the two   *)
(* entry points part1 (bounded number of connections) and part2 (merge     *)
(* until one circuit is left).                                             *)
(* With it, the line parser of day 8, the dial of day 1 (src/src/day1.rs), *)
(* the range merging of day 5 (src/src/day5.rs) and the quantum beams of   *)
(* day 7 (src/src/day7.rs), each run under a specification of its own      *)
(* while the other days stay idle.                                         *)
(***************************************************************************)
EXTENDS Integers, Sequences, FiniteSets, TLC

\* ------------------------------------------------------------------ bounds
\* Longest input (number of lines) with pairwise different boxes; Universe
\* has six boxes, the fewest that part1 can leave in three circuits.
MaxBoxes == 6
\* Longest input in which some box value is repeated.
MaxDupBoxes == 3
\* Largest num_connections handed to part1.
MaxConnections == 4
\* Bits of a coordinate in the model's scaled integer types: the fewest with
\* which the distances of the sample input of the tests fit, as they do in
\* the program's types.
CoordBits == 11
\* Largest num_connections handed to part1 on the sample input of the tests.
MaxSampleConnections == 12

\* ------------------------------------------------------------------ data
\* struct Location { x, y, z }; a JunctionBox is its location, compared and
\* hashed by value.
Loc(x, y, z) == [x |-> x, y |-> y, z |-> z]

\* The box values the inputs are drawn from: three close pairs (two of them
\* at the same distance), with equal distances between the pairs as well.
Universe ==
    { Loc(1, 0, 0), Loc(2, 0, 0), Loc(3, 4, 0),
      Loc(4, 4, 0), Loc(5, 0, 5), Loc(7, 0, 5) }

Range(s) == {s[k] : k \in DOMAIN s}

RECURSIVE DistinctInputs(_)
DistinctInputs(n) ==
    IF n = 0 THEN {<<>>}
    ELSE UNION { {Append(s, p) : p \in Universe \ Range(s)} : s \in DistinctInputs(n - 1) }

\* The parsed inputs: every order of every choice of pairwise different boxes,
\* and every short input with a repeated line.
Inputs ==
    UNION {DistinctInputs(n) : n \in 0..MaxBoxes}
    \cup UNION {[1..n -> Universe] : n \in 0..MaxDupBoxes}

\* The input of the tests.
Sample ==
    << Loc(162, 817, 812), Loc(57, 618, 57), Loc(906, 360, 560),
       Loc(592, 479, 940), Loc(352, 342, 300), Loc(466, 668, 158),
       Loc(542, 29, 236), Loc(431, 825, 988), Loc(739, 650, 466),
       Loc(52, 470, 668), Loc(216, 146, 977), Loc(819, 987, 18),
       Loc(117, 168, 530), Loc(805, 96, 715), Loc(346, 949, 466),
       Loc(970, 615, 88), Loc(941, 993, 340), Loc(862, 61, 35),
       Loc(984, 92, 344), Loc(425, 690, 689) >>

\* Option<T>
Some(v) == [some |-> TRUE, val |-> v]
None == [some |-> FALSE, val |-> 0]

\* anyhow::Result<T>
Ok(v) == [ok |-> TRUE, val |-> v, err |-> ""]
Err(msg) == [ok |-> FALSE, val |-> 0, err |-> msg]

\* ------------------------------------------------------------------ distance table
\* The integer types, scaled: a coordinate (u32) has CoordBits bits, and i64
\* and u64 have twice as many, as 64 is twice 32.
U32Max == 2 ^ CoordBits - 1
I64Max == 2 ^ (2 * CoordBits - 1) - 1
U64Max == 2 ^ (2 * CoordBits) - 1

\* i64::pow(2) where overflow is not checked: the square, wrapped into i64.
i64_pow2(v) == ((v * v + I64Max + 1) % (U64Max + 1)) - (I64Max + 1)

\* `as u64` of an i64: the same bits.
as_u64(v) == v % (U64Max + 1)

\* u64 + u64 where overflow is not checked.
u64_add(a, b) == (a + b) % (U64Max + 1)

\* Location::distance: the sum of the three squared coordinate differences,
\* as a build without overflow checks computes it.
distance(self, other) ==
    u64_add(u64_add(as_u64(i64_pow2(self.x - other.x)),
                    as_u64(i64_pow2(self.y - other.y))),
            as_u64(i64_pow2(self.z - other.z)))

\* Location::distance in a build with overflow checks panics: a square leaves
\* i64 or a sum leaves u64.
distance_overflows(self, other) ==
    LET dx == (self.x - other.x) * (self.x - other.x)
        dy == (self.y - other.y) * (self.y - other.y)
        dz == (self.z - other.z) * (self.z - other.z)
    IN \/ dx > I64Max \/ dy > I64Max \/ dz > I64Max
       \/ dx + dy > U64Max
       \/ u64_add(dx, dy) + dz > U64Max

\* The inner loop of get_sorted_distances from inner position j on, mutated:
\* no `continue` on equal boxes.
RECURSIVE InnerLoopNoSkip(_, _, _)
InnerLoopNoSkip(boxes, i, j) ==
    IF j > Len(boxes) THEN <<>>
    ELSE <<[d |-> distance(boxes[i], boxes[j]), i |-> i, j |-> j]>>
         \o InnerLoopNoSkip(boxes, i, j + 1)

\* The inner loop of get_sorted_distances from inner position j on: one entry
\* (distance, (box i, box j)) for every later box that differs from box i.
RECURSIVE InnerLoop(_, _, _)
InnerLoop(boxes, i, j) ==
    IF j > Len(boxes) THEN <<>>
    ELSE (IF boxes[i] = boxes[j]
          THEN <<>>
          ELSE <<[d |-> distance(boxes[i], boxes[j]), i |-> i, j |-> j]>>)
         \o InnerLoop(boxes, i, j + 1)

\* The outer loop from position i on; the inner iterator is boxes.iter().skip(i),
\* which starts at box i itself.
RECURSIVE OuterLoop(_, _)
OuterLoop(boxes, i) ==
    IF i > Len(boxes) THEN <<>>
    ELSE InnerLoop(boxes, i, i) \o OuterLoop(boxes, i + 1)

\* Position of element i in the sorted order, mutated: equal keys in reverse.
UnstableRank(keys, i) ==
    Cardinality({j \in DOMAIN keys :
                    keys[j] < keys[i] \/ (keys[j] = keys[i] /\ j >= i)})

\* Position of element i after a stable ascending sort by keys.
StableRank(keys, i) ==
    Cardinality({j \in DOMAIN keys :
                    keys[j] < keys[i] \/ (keys[j] = keys[i] /\ j <= i)})

\* Vec::sort_by_key: v reordered by ascending key, stable; keys[k] is the key
\* of v[k].
sort_by_key(v, keys) ==
    [p \in 1..Len(v) |-> v[CHOOSE i \in 1..Len(v) : StableRank(keys, i) = p]]

get_sorted_distances(boxes) ==
    LET distances == OuterLoop(boxes, 1)
    IN sort_by_key(distances, [k \in 1..Len(distances) |-> distances[k].d])

\* get_sorted_distances panics in a build with overflow checks: some distance
\* it computes overflows.
get_sorted_distances_panics(boxes) ==
    \E i, j \in DOMAIN boxes :
        i <= j /\ boxes[i] # boxes[j] /\ distance_overflows(boxes[i], boxes[j])

\* ------------------------------------------------------------------ parsing
\* A line is a sequence of characters.

DigitChars == <<"0", "1", "2", "3", "4", "5", "6", "7", "8", "9">>

IsDigit(c) == \E v \in DOMAIN DigitChars : DigitChars[v] = c

DigitValue(c) == (CHOOSE v \in DOMAIN DigitChars : DigitChars[v] = c) - 1

RECURSIVE Decimal(_)
Decimal(s) ==
    IF s = <<>> THEN 0
    ELSE 10 * Decimal(SubSeq(s, 1, Len(s) - 1)) + DigitValue(s[Len(s)])

\* str::parse::<u32>: an optional "+", then one or more digits, of a value
\* that fits u32.
parse_u32(s) ==
    LET digits == IF s # <<>> /\ s[1] = "+" THEN Tail(s) ELSE s
    IN  IF \/ digits = <<>>
           \/ \E k \in DOMAIN digits : ~IsDigit(digits[k])
        THEN Err("invalid digit")
        ELSE IF Decimal(digits) > U32Max
             THEN Err("number too large")
             ELSE Ok(Decimal(digits))

\* s.split(","): the pieces between the commas, in order; a line with no
\* comma is one piece.
RECURSIVE split(_)
split(s) ==
    IF \A k \in DOMAIN s : s[k] # ","
    THEN <<s>>
    ELSE LET k == CHOOSE c \in DOMAIN s :
                      s[c] = "," /\ \A b \in 1..(c - 1) : s[b] # ","
         IN  <<SubSeq(s, 1, k - 1)>> \o split(SubSeq(s, k + 1, Len(s)))

\* JunctionBox::from_str: the first three pieces of the line; the iterator
\* is not asked for a fourth.
from_str(s) ==
    LET it == split(s)
    IN  IF Len(it) < 1 THEN Err("no first number")
        ELSE IF ~parse_u32(it[1]).ok THEN Err("failed to parse first number")
        ELSE IF Len(it) < 2 THEN Err("no second number")
        ELSE IF ~parse_u32(it[2]).ok THEN Err("failed to parse second number")
        ELSE IF Len(it) < 3 THEN Err("no third number")
        ELSE IF ~parse_u32(it[3]).ok THEN Err("failed to parse third number")
        ELSE Ok(Loc(parse_u32(it[1]).val, parse_u32(it[2]).val, parse_u32(it[3]).val))

\* The decimal digits of n, as in the lines of tests::INPUT.
RECURSIVE to_digits(_)
to_digits(n) ==
    IF n < 10 THEN <<DigitChars[n + 1]>>
    ELSE to_digits(n \div 10) \o <<DigitChars[(n % 10) + 1]>>

\* The input lines that parse to the boxes bs.
LinesOf(bs) ==
    [k \in DOMAIN bs |->
        to_digits(bs[k].x) \o <<",">> \o to_digits(bs[k].y) \o <<",">> \o to_digits(bs[k].z)]

\* ------------------------------------------------------------------ merge engine
\* circuits.iter().position(|c| c.contains(&j)): the first circuit holding j.
position(circuits, j) ==
    IF \E k \in 1..Len(circuits) : j \in circuits[k]
    THEN Some(CHOOSE k \in 1..Len(circuits) :
                 /\ j \in circuits[k]
                 /\ \A l \in 1..(k - 1) : j \notin circuits[l])
    ELSE None

\* Vec::remove(k), mutated: nothing is removed.
remove_nothing(circuits, k) == circuits

\* Vec::remove(k): the elements after k shift left.
remove(circuits, k) ==
    SubSeq(circuits, 1, k - 1) \o SubSeq(circuits, k + 1, Len(circuits))

\* get_mut(k) and extend/insert, mutated: the circuit is replaced by `more`.
extend_at_overwrite(circuits, k, more, msg) ==
    IF k \in 1..Len(circuits)
    THEN Ok([circuits EXCEPT ![k] = more])
    ELSE Err(msg)

\* get_mut(k) and extend/insert, mutated: the circuit is left as it was.
extend_at_forgotten(circuits, k, more, msg) ==
    IF k \in 1..Len(circuits)
    THEN Ok(circuits)
    ELSE Err(msg)

\* circuits.get_mut(k) followed by extend/insert of the set more.
extend_at(circuits, k, more, msg) ==
    IF k \in 1..Len(circuits)
    THEN Ok([circuits EXCEPT ![k] = @ \cup more])
    ELSE Err(msg)

\* HashSet::from_iter([j1, j2]), mutated: only the first box.
from_iter_first_only(j1, j2) == {j1}

\* HashSet::from_iter([j1, j2])
from_iter(j1, j2) == {j1, j2}

\* merge_boxes without the `second == first` early return.
merge_boxes_no_same_check(circuits, j1, j2) ==
    LET first_circuit == position(circuits, j1)
        second_circuit == position(circuits, j2)
        first == first_circuit.val
        second == second_circuit.val
    IN IF first_circuit.some /\ second_circuit.some
       THEN IF second > first
            THEN extend_at(remove(circuits, second), first,
                           circuits[second], "failed to get first")
            ELSE extend_at(remove(circuits, first), second,
                           circuits[first], "failed to get second")
       ELSE IF first_circuit.some
            THEN extend_at(circuits, first, {j2}, "failed to get first circuit")
            ELSE IF second_circuit.some
                 THEN extend_at(circuits, second, {j1}, "failed to get second circuit")
                 ELSE Ok(Append(circuits, from_iter(j1, j2)))

merge_boxes(circuits, j1, j2) ==
    LET first_circuit == position(circuits, j1)
        second_circuit == position(circuits, j2)
        first == first_circuit.val
        second == second_circuit.val
    IN IF first_circuit.some /\ second_circuit.some
       THEN IF second = first
            THEN Ok(circuits)
            ELSE IF second > first
                 THEN extend_at(remove(circuits, second), first,
                                circuits[second], "failed to get first")
                 ELSE extend_at(remove(circuits, first), second,
                                circuits[first], "failed to get second")
       ELSE IF first_circuit.some
            THEN extend_at(circuits, first, {j2}, "failed to get first circuit")
            ELSE IF second_circuit.some
                 THEN extend_at(circuits, second, {j1}, "failed to get second circuit")
                 ELSE Ok(Append(circuits, from_iter(j1, j2)))

\* ------------------------------------------------------------------ entry points
\* Iterator::take(n), mutated: one item more.
take_one_more(n, len) == IF n + 1 < len THEN n + 1 ELSE len

\* Iterator::take(n) over len items yields this many.
take(n, len) == IF n < len THEN n ELSE len

RECURSIVE product(_)
product(sizes) ==
    IF sizes = <<>> THEN 1 ELSE Head(sizes) * product(Tail(sizes))

\* circuits.sort_by_key(|x| Reverse(x.len()))
sort_by_len_desc(circuits) ==
    sort_by_key(circuits, [k \in 1..Len(circuits) |-> 0 - Cardinality(circuits[k])])

\* circuits.iter().take(3).map(|x| x.len()).product()
top3_product(circuits) ==
    product([k \in 1..take(3, Len(circuits)) |-> Cardinality(circuits[k])])

\* The product of part2, mutated: the first box twice.
x_product_first_twice(j1, j2) == j1.x * j1.x

\* j1.location.x as u64 * j2.location.x as u64
x_product(j1, j2) == j1.x * j2.x

VARIABLES
    pc,               \* where the running day 8 entry point stands
    mode,             \* "part1" or "part2": the entry point called
    input,            \* day 8: the lines of the input string
    boxes,            \* the parsed input
    num_connections,  \* part1's argument
    distances,        \* the sorted distance table
    circuits,         \* Vec<HashSet<&JunctionBox>>
    consumed,         \* entries of distances the iterator has yielded
    result,           \* part2's local `result`
    ret,              \* the value returned to the caller
    d1_pc,            \* day 1: where the running code stands
    dial,             \* day 1: the value in the Dial
    d1_arg,           \* day 1: the argument of the last Dial::new or +=
    d1_lines,         \* day 1: the rotations of the input, one per line
    d1_pos,           \* day 1: lines consumed, or += operations applied
    num_rotations,    \* day 1: part2's counter
    d5_pc,            \* day 5: where part2 stands
    d5_input,         \* day 5: the ranges of the database, in input order
    ranges,           \* day 5: combine_intersecting_ranges' `ranges`
    current_len,      \* day 5: combine_intersecting_ranges' `current_len`
    d5_ret,           \* day 5: the value part2 returns
    d7_pc,            \* day 7: where part2 stands
    manifold,         \* day 7: the parsed Manifold
    beams,            \* day 7: the walker's beams
    splits_sum        \* day 7: part2's running total

day8_vars ==
    <<pc, mode, input, boxes, num_connections, distances, circuits, consumed, result, ret>>
day1_vars == <<d1_pc, dial, d1_arg, d1_lines, d1_pos, num_rotations>>
day5_vars == <<d5_pc, d5_input, ranges, current_len, d5_ret>>
day7_vars == <<d7_pc, manifold, beams, splits_sum>>

vars == <<day8_vars, day1_vars, day5_vars, day7_vars>>

\* Day 8 is not running.
Day8Idle ==
    /\ pc = "idle" /\ mode = "none" /\ input = <<>> /\ boxes = <<>>
    /\ num_connections = 0 /\ distances = <<>> /\ circuits = <<>>
    /\ consumed = 0 /\ result = [some |-> FALSE, val |-> 0]
    /\ ret = [ok |-> FALSE, val |-> 0, err |-> "pending"]

\* Day 1 is not running.
Day1Idle ==
    /\ d1_pc = "idle" /\ dial = 0 /\ d1_arg = 0 /\ d1_lines = <<>>
    /\ d1_pos = 0 /\ num_rotations = 0

\* Day 5 is not running.
Day5Idle ==
    /\ d5_pc = "idle" /\ d5_input = <<>> /\ ranges = <<>>
    /\ current_len = 0 /\ d5_ret = 0

\* Day 7 is not running.
Day7Idle ==
    /\ d7_pc = "idle" /\ manifold = [grid |-> <<>>, start |-> <<0, 0>>]
    /\ beams = {} /\ splits_sum = 0

Pending == Err("pending")

Init ==
    /\ pc = "called"
    /\ mode \in {"part1", "part2"}
    /\ boxes \in Inputs
    /\ num_connections \in (IF mode = "part1" THEN 0..MaxConnections ELSE {0})
    /\ distances = <<>>
    /\ circuits = <<>>
    /\ consumed = 0
    /\ result = None
    /\ ret = Pending
    /\ input = LinesOf(boxes)
    /\ Day1Idle /\ Day5Idle /\ Day7Idle

\* The two boxes of the k-th entry of the distance table.
J1(k) == boxes[distances[k].i]
J2(k) == boxes[distances[k].j]

\* part1 up to its loop: the distance table and no circuit. The build has
\* overflow checks or not.
Part1Start ==
    /\ pc = "called" /\ mode = "part1"
    /\ \E overflow_checks \in BOOLEAN :
          IF overflow_checks /\ get_sorted_distances_panics(boxes)
          THEN /\ pc' = "panicked"
               /\ UNCHANGED <<distances, circuits>>
          ELSE /\ distances' = get_sorted_distances(boxes)
               /\ circuits' = <<>>
               /\ pc' = "p1_loop"
    /\ UNCHANGED <<day1_vars, day5_vars, day7_vars>>
    /\ UNCHANGED <<input, mode, boxes, num_connections, consumed, result, ret>>

\* One iteration of part1's loop over distances.into_iter().take(num_connections).
Part1Merge ==
    /\ pc = "p1_loop"
    /\ consumed < take(num_connections, Len(distances))
    /\ LET merged == merge_boxes(circuits, J1(consumed + 1), J2(consumed + 1))
       IN IF merged.ok
          THEN /\ circuits' = merged.val
               /\ pc' = "p1_loop"
               /\ ret' = ret
          ELSE /\ circuits' = circuits
               /\ pc' = "done"
               /\ ret' = Err("failed to merged")
    /\ consumed' = consumed + 1
    /\ UNCHANGED <<day1_vars, day5_vars, day7_vars>>
    /\ UNCHANGED <<input, mode, boxes, num_connections, distances, result>>

\* part1 after its loop: sort the circuits by size, multiply the first three.
Part1Return ==
    /\ pc = "p1_loop"
    /\ consumed >= take(num_connections, Len(distances))
    /\ circuits' = sort_by_len_desc(circuits)
    /\ ret' = Ok(top3_product(circuits'))
    /\ pc' = "done"
    /\ UNCHANGED <<day1_vars, day5_vars, day7_vars>>
    /\ UNCHANGED <<input, mode, boxes, num_connections, distances, consumed, result>>

\* for b in &boxes { circuits.push(HashSet::from_iter([b])) }
singletons(bs) == [k \in 1..Len(bs) |-> {bs[k]}]

\* part2 up to its loop: the distance table and one circuit per box. The
\* build has overflow checks or not.
Part2Start ==
    /\ pc = "called" /\ mode = "part2"
    /\ \E overflow_checks \in BOOLEAN :
          IF overflow_checks /\ get_sorted_distances_panics(boxes)
          THEN /\ pc' = "panicked"
               /\ UNCHANGED <<distances, circuits>>
          ELSE /\ distances' = get_sorted_distances(boxes)
               /\ circuits' = singletons(boxes)
               /\ pc' = "p2_loop"
    /\ result' = None
    /\ UNCHANGED <<day1_vars, day5_vars, day7_vars>>
    /\ UNCHANGED <<input, mode, boxes, num_connections, consumed, ret>>

\* One iteration of part2's loop that gets an entry from the iterator.
Part2Merge ==
    /\ pc = "p2_loop"
    /\ Len(circuits) # 1
    /\ consumed < Len(distances)
    /\ LET merged == merge_boxes(circuits, J1(consumed + 1), J2(consumed + 1))
       IN IF merged.ok
          THEN /\ circuits' = merged.val
               /\ result' = Some(x_product(J1(consumed + 1), J2(consumed + 1)))
               /\ pc' = "p2_loop"
               /\ ret' = ret
          ELSE /\ circuits' = circuits
               /\ result' = result
               /\ pc' = "done"
               /\ ret' = Err("failed to merged")
    /\ consumed' = consumed + 1
    /\ UNCHANGED <<day1_vars, day5_vars, day7_vars>>
    /\ UNCHANGED <<input, mode, boxes, num_connections, distances>>

\* The iteration that finds the iterator empty, mutated: the loop is left as
\* by `break`, and the last product, if any, is returned.
Part2ExhaustedBreaks ==
    /\ pc = "p2_loop"
    /\ Len(circuits) # 1
    /\ consumed >= Len(distances)
    /\ ret' = (IF result.some THEN Ok(result.val) ELSE Err("no merges happened"))
    /\ pc' = "done"
    /\ UNCHANGED <<day1_vars, day5_vars, day7_vars>>
    /\ UNCHANGED <<input, mode, boxes, num_connections, distances, circuits, consumed, result>>

\* The iteration of part2's loop that finds the iterator empty.
Part2Exhausted ==
    /\ pc = "p2_loop"
    /\ Len(circuits) # 1
    /\ consumed >= Len(distances)
    /\ ret' = Err("no more boxes to connect")
    /\ pc' = "done"
    /\ UNCHANGED <<day1_vars, day5_vars, day7_vars>>
    /\ UNCHANGED <<input, mode, boxes, num_connections, distances, circuits, consumed, result>>

\* part2 after its loop.
Part2Return ==
    /\ pc = "p2_loop"
    /\ Len(circuits) = 1
    /\ ret' = (IF result.some THEN Ok(result.val) ELSE Err("no merges happened"))
    /\ pc' = "done"
    /\ UNCHANGED <<day1_vars, day5_vars, day7_vars>>
    /\ UNCHANGED <<input, mode, boxes, num_connections, distances, circuits, consumed, result>>

Next ==
    \/ Part1Start
    \/ Part1Merge
    \/ Part1Return
    \/ Part2Start
    \/ Part2Merge
    \/ Part2Exhausted
    \/ Part2Return

Spec == Init /\ [][Next]_vars

\* The entry points on the sample input of the tests, which never runs out of
\* entries.
InitSample ==
    /\ pc = "called"
    /\ mode \in {"part1", "part2"}
    /\ boxes = Sample
    /\ num_connections \in (IF mode = "part1" THEN 0..MaxSampleConnections ELSE {0})
    /\ distances = <<>>
    /\ circuits = <<>>
    /\ consumed = 0
    /\ result = None
    /\ ret = Pending
    /\ input = LinesOf(boxes)
    /\ Day1Idle /\ Day5Idle /\ Day7Idle

NextSample ==
    \/ Part1Start
    \/ Part1Merge
    \/ Part1Return
    \/ Part2Start
    \/ Part2Merge
    \/ Part2Return

SpecSample == InitSample /\ [][NextSample]_vars

\* Location::distance called on its own, in a build with overflow checks or
\* without.
DistanceCall ==
    /\ pc = "distance_called"
    /\ \E overflow_checks \in BOOLEAN :
          IF overflow_checks /\ distance_overflows(boxes[1], boxes[2])
          THEN /\ pc' = "panicked"
               /\ ret' = ret
          ELSE /\ pc' = "done"
               /\ ret' = Ok(distance(boxes[1], boxes[2]))
    /\ UNCHANGED <<day1_vars, day5_vars, day7_vars>>
    /\ UNCHANGED <<input, mode, boxes, num_connections, distances, circuits, consumed, result>>

\* The coordinates at the two ends of u32.
EndCoords == {0, 1, U32Max - 1, U32Max}

EndLocations == {Loc(x, y, z) : x \in EndCoords, y \in EndCoords, z \in EndCoords}

InitDistance ==
    /\ pc = "distance_called"
    /\ mode = "distance"
    /\ boxes \in {<<p, q>> : p \in EndLocations, q \in EndLocations}
    /\ num_connections = 0
    /\ distances = <<>>
    /\ circuits = <<>>
    /\ consumed = 0
    /\ result = None
    /\ ret = Pending
    /\ input = <<>>
    /\ Day1Idle /\ Day5Idle /\ Day7Idle

SpecDistance == InitDistance /\ [][DistanceCall]_vars

\* The parse loop at the head of part1 and part2, on lines over a small
\* alphabet.
LineChars == {"1", ",", "x", "+"}

MaxLineLen == 7

MaxSecondLineLen == 4

LinesUpTo(n) == UNION {[1..k -> LineChars] : k \in 0..n}

ParseInputs ==
    {<<>>}
        \cup {<<l>> : l \in LinesUpTo(MaxLineLen)}
        \cup {<<LinesOf(<<Loc(1, 1, 1)>>)[1], l>> : l \in LinesUpTo(MaxSecondLineLen)}

InitParse ==
    /\ pc = "parsing"
    /\ mode \in {"part1", "part2"}
    /\ input \in ParseInputs
    /\ boxes = <<>>
    /\ num_connections = 0
    /\ distances = <<>>
    /\ circuits = <<>>
    /\ consumed = 0
    /\ result = None
    /\ ret = Pending
    /\ Day1Idle /\ Day5Idle /\ Day7Idle

\* One turn of `for line in input.lines()`: the line is parsed and pushed, or
\* the error is returned.
ParseLine ==
    /\ pc = "parsing"
    /\ Len(boxes) < Len(input)
    /\ LET junction_box == from_str(input[Len(boxes) + 1])
       IN  IF junction_box.ok
           THEN /\ boxes' = Append(boxes, junction_box.val)
                /\ UNCHANGED <<pc, ret>>
           ELSE /\ pc' = "done"
                /\ ret' = Err("failed to parse line")
                /\ UNCHANGED boxes
    /\ UNCHANGED <<day1_vars, day5_vars, day7_vars>>
    /\ UNCHANGED <<input, mode, num_connections, distances, circuits, consumed, result>>

\* Every line parsed: the entry point goes on to the distance table.
ParseEnd ==
    /\ pc = "parsing"
    /\ Len(boxes) = Len(input)
    /\ pc' = "called"
    /\ UNCHANGED <<day1_vars, day5_vars, day7_vars>>
    /\ UNCHANGED <<input, mode, boxes, num_connections, distances, circuits, consumed, result, ret>>

NextParse == ParseLine \/ ParseEnd

SpecParse == InitParse /\ [][NextParse]_vars

\* ------------------------------------------------------------------ day 1: the dial
\* src/src/day1.rs, with its integer widths: Dial(u8), rhs: i16, u16 counts.

MAX_VALUE == 100

U8Max == 2 ^ 8 - 1
I16Max == 2 ^ 15 - 1
I16Min == -(2 ^ 15)

\* Dial::new
Dial_new(value) == IF value >= MAX_VALUE THEN None ELSE Some(value)

unsigned_abs(v) == IF v < 0 THEN -v ELSE v

\* `as i16` of a u16, `as u16` of an i16, and the sum of two i16 where it
\* wraps.
u16_as_i16(v) == IF v > I16Max THEN v - 2 ^ 16 ELSE v
i16_as_u16(v) == v % (2 ^ 16)
i16_wrapping_add(a, b) == ((a + b - I16Min) % (2 ^ 16)) + I16Min

\* The i16 operand added to a negative rhs: 100 * (full_rotations + 1), cast.
complement_of(rhs) ==
    u16_as_i16(MAX_VALUE * ((unsigned_abs(rhs) \div MAX_VALUE) + 1))

\* The i16 sum `rhs + (...) as i16` leaves i16.
add_assign_overflows(rhs) ==
    /\ rhs < 0
    /\ \/ rhs + complement_of(rhs) > I16Max
       \/ rhs + complement_of(rhs) < I16Min

\* Dial::add_assign_count_saturations, where it does not panic: the new
\* value of the dial and the count returned.
add_assign_count_saturations(self, rhs) ==
    LET full_rotations == unsigned_abs(rhs) \div MAX_VALUE
        complement_rhs == i16_as_u16(i16_wrapping_add(rhs, complement_of(rhs)))
        normalized_rhs == IF rhs < 0 THEN complement_rhs ELSE rhs
        num_saturations == IF rhs < 0 THEN full_rotations ELSE rhs \div MAX_VALUE
        modulo_rhs == normalized_rhs % MAX_VALUE
        res == (self + modulo_rhs) % MAX_VALUE
    IN  [dial |-> res,
         num_saturations |->
            IF /\ self # 0 /\ res # 0
               /\ \/ res > self /\ rhs < 0
                  \/ res < self /\ rhs > 0
            THEN num_saturations + 1
            ELSE num_saturations]

\* -- Dial::new and `dial += rhs` called on their own

\* How far from the ends of i16, and from 0, the operands of += are taken.
MaxRhsFromEnd == 130
MaxRhsFromZero == 320

\* How many += are applied to one dial.
MaxAdds == 2

RhsValues ==
    (I16Min..(I16Min + MaxRhsFromEnd))
        \cup ((-MaxRhsFromZero)..MaxRhsFromZero)
        \cup ((I16Max - MaxRhsFromEnd)..I16Max)

InitDial ==
    /\ d1_pc = "new_called"
    /\ d1_arg \in {Some(value) : value \in 0..U8Max}
    /\ dial = 0
    /\ d1_lines = <<>>
    /\ d1_pos = 0
    /\ num_rotations = 0
    /\ Day8Idle /\ Day5Idle /\ Day7Idle

\* Dial::new(value)
DialNew ==
    /\ d1_pc = "new_called"
    /\ LET d == Dial_new(d1_arg.val)
       IN  IF d.some
           THEN /\ dial' = d.val
                /\ d1_pc' = "dial"
           ELSE /\ dial' = dial
                /\ d1_pc' = "no_dial"
    /\ d1_arg' = None
    /\ UNCHANGED <<d1_lines, d1_pos, num_rotations>>
    /\ UNCHANGED <<day8_vars, day5_vars, day7_vars>>

\* The caller has an operand for the next `dial += rhs`.
DialOperand ==
    /\ d1_pc = "dial"
    /\ d1_pos < MaxAdds
    /\ d1_arg' \in {Some(rhs) : rhs \in RhsValues}
    /\ d1_pc' = "add_called"
    /\ UNCHANGED <<dial, d1_lines, d1_pos, num_rotations>>
    /\ UNCHANGED <<day8_vars, day5_vars, day7_vars>>

\* AddAssign<i16>::add_assign, in a build with overflow checks or without.
DialAddAssign ==
    /\ d1_pc = "add_called"
    /\ \E overflow_checks \in BOOLEAN :
          IF overflow_checks /\ add_assign_overflows(d1_arg.val)
          THEN /\ d1_pc' = "panicked"
               /\ UNCHANGED <<dial, d1_arg, d1_pos>>
          ELSE /\ dial' = add_assign_count_saturations(dial, d1_arg.val).dial
               /\ d1_pc' = "dial"
               /\ d1_arg' = None
               /\ d1_pos' = d1_pos + 1
    /\ UNCHANGED <<d1_lines, num_rotations>>
    /\ UNCHANGED <<day8_vars, day5_vars, day7_vars>>

NextDial == DialNew \/ DialOperand \/ DialAddAssign

SpecDial == InitDial /\ [][NextDial]_vars

\* -- day1::part2 on well-formed lines

MaxRotationLines == 3

\* The distances written on the lines.
Distances == {1, 50, 99, 100, 150, 200}

RotationLines == [direction : {"L", "R"}, distance : Distances]

RotationInputs == UNION {[1..n -> RotationLines] : n \in 0..MaxRotationLines}

InitRotations ==
    /\ d1_pc = "part2_loop"
    /\ dial = Dial_new(50).val
    /\ d1_arg = None
    /\ d1_lines \in RotationInputs
    /\ d1_pos = 0
    /\ num_rotations = 0
    /\ Day8Idle /\ Day5Idle /\ Day7Idle

\* The signed distance of a line: `match direction`.
signed_distance(line) ==
    IF line.direction = "L" THEN -line.distance ELSE line.distance

\* One turn of part2's loop.
Day1Part2Line ==
    /\ d1_pc = "part2_loop"
    /\ d1_pos < Len(d1_lines)
    /\ LET rotation == signed_distance(d1_lines[d1_pos + 1])
           r == add_assign_count_saturations(dial, rotation)
       IN  \E overflow_checks \in BOOLEAN :
              IF overflow_checks /\ add_assign_overflows(rotation)
              THEN /\ d1_pc' = "panicked"
                   /\ UNCHANGED <<dial, d1_pos, num_rotations>>
              ELSE /\ dial' = r.dial
                   /\ num_rotations' =
                         num_rotations + r.num_saturations
                             + (IF r.dial = 0 THEN 1 ELSE 0)
                   /\ d1_pos' = d1_pos + 1
                   /\ UNCHANGED d1_pc
    /\ UNCHANGED <<d1_arg, d1_lines>>
    /\ UNCHANGED <<day8_vars, day5_vars, day7_vars>>

\* Ok(num_rotations)
Day1Part2Return ==
    /\ d1_pc = "part2_loop"
    /\ d1_pos = Len(d1_lines)
    /\ d1_pc' = "done"
    /\ UNCHANGED <<dial, d1_arg, d1_lines, d1_pos, num_rotations>>
    /\ UNCHANGED <<day8_vars, day5_vars, day7_vars>>

NextRotations == Day1Part2Line \/ Day1Part2Return

SpecRotations == InitRotations /\ [][NextRotations]_vars

\* ------------------------------------------------------------------ day 5: range merging
\* src/src/day5.rs: part2 and combine_intersecting_ranges.

MyRangeInclusive(start, end) == [start |-> start, end |-> end]

\* MyRangeInclusive::count, where the u64 arithmetic wraps, and whether it
\* leaves u64.
count(r) == (r.end - r.start + 1) % (U64Max + 1)
count_overflows(r) == r.end - r.start + 1 > U64Max

do_ranges_intersect(r1, r2) == ~(r1.end < r2.start \/ r2.end < r1.start)

min(a, b) == IF a <= b THEN a ELSE b
max(a, b) == IF a >= b THEN a ELSE b

\* The `for range in ranges.iter().skip(1)` loop from the k-th range on, and
\* the push that follows it.
RECURSIVE SweepFrom(_, _, _, _)
SweepFrom(rs, k, current, new_ranges) ==
    IF k > Len(rs) THEN Append(new_ranges, current)
    ELSE IF do_ranges_intersect(current, rs[k])
         THEN SweepFrom(rs, k + 1,
                        MyRangeInclusive(min(current.start, rs[k].start),
                                         max(current.end, rs[k].end)),
                        new_ranges)
         ELSE SweepFrom(rs, k + 1, rs[k], Append(new_ranges, current))

combine_intersecting_ranges_single_iteration(rs) ==
    IF rs = <<>> THEN <<>> ELSE SweepFrom(rs, 2, rs[1], <<>>)

\* The key (x.start, x.end) of a comes before that of b.
KeyLess(a, b) == a.start < b.start \/ (a.start = b.start /\ a.end < b.end)

keep_order(rs) == rs

\* ranges.sort_by_key(|x| (x.start, x.end)): a stable sort.
range_sort(rs) ==
    LET rank(i) == Cardinality({j \in DOMAIN rs :
                        KeyLess(rs[j], rs[i]) \/ (~KeyLess(rs[i], rs[j]) /\ j <= i)})
    IN  [k \in DOMAIN rs |-> rs[CHOOSE i \in DOMAIN rs : rank(i) = k]]

\* combined.into_iter().map(|x| x.count()).sum(), where the u64 arithmetic
\* wraps, and whether it leaves u64.
RECURSIVE sum_of_counts(_)
sum_of_counts(rs) ==
    IF rs = <<>> THEN 0 ELSE u64_add(count(Head(rs)), sum_of_counts(Tail(rs)))

RECURSIVE exact_sum_of_counts(_)
exact_sum_of_counts(rs) ==
    IF rs = <<>> THEN 0
    ELSE (Head(rs).end - Head(rs).start + 1) + exact_sum_of_counts(Tail(rs))

sum_overflows(rs) ==
    \/ \E k \in DOMAIN rs : count_overflows(rs[k])
    \/ exact_sum_of_counts(rs) > U64Max

\* The ids of the ranges are taken in 0..MaxId; a database has up to
\* MaxRanges ranges.
MaxId == 3
MaxRanges == 3

AllRanges == {r \in [start : 0..MaxId, end : 0..MaxId] : r.start <= r.end}

\* The ranges of tests::test_part2.
TestRanges ==
    <<MyRangeInclusive(3, 5), MyRangeInclusive(10, 14),
      MyRangeInclusive(16, 20), MyRangeInclusive(12, 18)>>

RangeInputs ==
    {TestRanges} \cup
        UNION {[1..n -> AllRanges] : n \in 0..MaxRanges}

InitDay5 ==
    /\ d5_pc = "part2_called"
    /\ d5_input \in RangeInputs
    /\ ranges = <<>>
    /\ current_len = 0
    /\ d5_ret = 0
    /\ Day8Idle /\ Day1Idle /\ Day7Idle

\* part2 collects the ranges; combine_intersecting_ranges sorts them and
\* takes their number.
Day5Sort ==
    /\ d5_pc = "part2_called"
    /\ ranges' = range_sort(d5_input)
    /\ current_len' = Len(d5_input)
    /\ d5_pc' = "loop"
    /\ UNCHANGED <<d5_input, d5_ret>>
    /\ UNCHANGED <<day8_vars, day1_vars, day7_vars>>

\* One turn of combine_intersecting_ranges' loop.
Day5Iteration ==
    /\ d5_pc = "loop"
    /\ ranges' = combine_intersecting_ranges_single_iteration(ranges)
    /\ IF Len(ranges') = current_len
       THEN /\ d5_pc' = "combined"
            /\ UNCHANGED current_len
       ELSE /\ current_len' = Len(ranges')
            /\ UNCHANGED d5_pc
    /\ UNCHANGED <<d5_input, d5_ret>>
    /\ UNCHANGED <<day8_vars, day1_vars, day7_vars>>

\* Ok(combined.into_iter().map(|x| x.count()).sum()), in a build with
\* overflow checks or without.
Day5Return ==
    /\ d5_pc = "combined"
    /\ \E overflow_checks \in BOOLEAN :
          IF overflow_checks /\ sum_overflows(ranges)
          THEN /\ d5_pc' = "panicked"
               /\ UNCHANGED d5_ret
          ELSE /\ d5_pc' = "done"
               /\ d5_ret' = sum_of_counts(ranges)
    /\ UNCHANGED <<d5_input, ranges, current_len>>
    /\ UNCHANGED <<day8_vars, day1_vars, day7_vars>>

NextDay5 == Day5Sort \/ Day5Iteration \/ Day5Return

SpecDay5 == InitDay5 /\ [][NextDay5]_vars

\* ------------------------------------------------------------------ day 7: quantum beams
\* src/src/day7.rs: QuantumManifoldWalker and part2.  Rows and columns count
\* from 0 as in the code.  The walker's beams come out of a HashMap in no
\* given order and have different positions, so they are kept as a set.

\* Manifold::get: the location at (row, column), if the grid has one.
get(m, row_column) ==
    IF /\ row_column[1] + 1 \in DOMAIN m.grid
       /\ row_column[2] + 1 \in DOMAIN m.grid[row_column[1] + 1]
    THEN Some(m.grid[row_column[1] + 1][row_column[2] + 1])
    ELSE None

QuantumBeam(at, num_timelines) == [at |-> at, num_timelines |-> num_timelines]

\* next_column - 1 in usize, where it wraps.
usize_sub1(c) == IF c = 0 THEN U64Max ELSE c - 1

\* What one beam pushes to new_beams: nothing off the grid, itself one row
\* down on an empty location, a beam to the right and one to the left on a
\* splitter.  `from` keeps the pushes of different beams apart.
pushes(m, beam) ==
    LET next_row == beam.at[1] + 1
        next_column == beam.at[2]
        location == get(m, <<next_row, next_column>>)
    IN  IF ~location.some THEN {}
        ELSE IF location.val = "Empty"
             THEN {[from |-> beam.at, at |-> <<next_row, next_column>>,
                    num_timelines |-> beam.num_timelines]}
             ELSE {[from |-> beam.at, at |-> <<next_row, next_column + 1>>,
                    num_timelines |-> beam.num_timelines],
                   [from |-> beam.at, at |-> <<next_row, usize_sub1(next_column)>>,
                    num_timelines |-> beam.num_timelines]}

new_beams_of(m, current_beams) == UNION {pushes(m, beam) : beam \in current_beams}

\* The sum of num_timelines over a set of beams or pushes.
RECURSIVE timelines_sum(_)
timelines_sum(bs) ==
    IF bs = {} THEN 0
    ELSE LET b == CHOOSE x \in bs : TRUE
         IN  b.num_timelines + timelines_sum(bs \ {b})

\* The fold with and_modify left out: the first beam at a position stays.
new_beams_first_only(new_beams) ==
    {QuantumBeam(at, (CHOOSE nb \in new_beams : nb.at = at).num_timelines) :
        at \in {nb.at : nb \in new_beams}}

\* new_beams_folded.into_values(): one beam per position, with the timelines
\* of all the pushes to it.
new_beams_folded(new_beams) ==
    {QuantumBeam(at, timelines_sum({nb \in new_beams : nb.at = at}) % (U64Max + 1)) :
        at \in {nb.at : nb \in new_beams}}

\* splits += beam.num_timelines over the beams that meet a splitter.
splits_of(m, current_beams) ==
    timelines_sum({beam \in current_beams :
        get(m, <<beam.at[1] + 1, beam.at[2]>>) = Some("Splitter")})

\* An addition or a subtraction of the step, or part2's +=, leaves usize.
step_overflows(m, current_beams, total) ==
    \/ \E beam \in current_beams :
          /\ get(m, <<beam.at[1] + 1, beam.at[2]>>) = Some("Splitter")
          /\ beam.at[2] = 0
    \/ \E nb \in new_beams_of(m, current_beams) :
          timelines_sum({x \in new_beams_of(m, current_beams) : x.at = nb.at}) > U64Max
    \/ total + splits_of(m, current_beams) > U64Max

\* Grids of up to MaxRows rows of MaxCols columns, with the start in the
\* first row and up to MaxSplitters splitters in the rows below it.
MaxRows == 4
MaxCols == 5
MaxSplitters == 3

\* The increasing sequences of k of the numbers 1..n, and the choices of up
\* to k of the first n cells below the first row, the cells numbered row by
\* row.
RECURSIVE Increasing(_, _)
Increasing(n, k) ==
    IF k = 0 THEN {<<>>}
    ELSE UNION {{Append(t, x) : x \in (IF t = <<>> THEN 1 ELSE t[Len(t)] + 1)..n} :
                    t \in Increasing(n, k - 1)}

SplitterSets(n, k) == UNION {Increasing(n, j) : j \in 0..k}

\* The (row, column) of cell i.
CellOf(i, cols) == <<1 + ((i - 1) \div cols), (i - 1) % cols>>

GridOf(rows, cols, splitters) ==
    [r \in 1..rows |->
        [c \in 1..cols |-> IF <<r - 1, c - 1>> \in splitters THEN "Splitter" ELSE "Empty"]]

\* The manifold of rows rows with its splitters at the cells of sp and its
\* start at column sc.
ManifoldOf(rows, sp, sc) ==
    [grid |-> GridOf(rows, MaxCols, {CellOf(sp[i], MaxCols) : i \in DOMAIN sp}),
     start |-> <<0, sc>>]

\* The manifold of tests::INPUT.
TestManifold ==
    [grid |-> GridOf(16, 15,
        {<<2, 7>>,
         <<4, 6>>, <<4, 8>>,
         <<6, 5>>, <<6, 7>>, <<6, 9>>,
         <<8, 4>>, <<8, 6>>, <<8, 10>>,
         <<10, 3>>, <<10, 5>>, <<10, 9>>, <<10, 11>>,
         <<12, 2>>, <<12, 6>>, <<12, 12>>,
         <<14, 1>>, <<14, 3>>, <<14, 5>>, <<14, 7>>, <<14, 9>>, <<14, 13>>}),
     start |-> <<0, 7>>]

\* part2 has parsed the manifold and made its walker.
InitDay7 ==
    /\ d7_pc = "walking"
    /\ \/ manifold = TestManifold
       \/ \E rows \in 1..MaxRows :
             \E sp \in SplitterSets((rows - 1) * MaxCols, MaxSplitters) :
                \E sc \in 0..(MaxCols - 1) :
                   manifold = ManifoldOf(rows, sp, sc)
    /\ beams = {QuantumBeam(manifold.start, 1)}
    /\ splits_sum = 1
    /\ Day8Idle /\ Day1Idle /\ Day5Idle

\* Some beam's next row is below the grid.
AtLastRow == \E beam \in beams : beam.at[1] + 1 = Len(manifold.grid)

\* walker.step() returns Some(split) and part2 adds it, in a build with
\* overflow checks or without.
Day7Step ==
    /\ d7_pc = "walking"
    /\ ~AtLastRow
    /\ \E overflow_checks \in BOOLEAN :
          IF overflow_checks /\ step_overflows(manifold, beams, splits_sum)
          THEN /\ d7_pc' = "panicked"
               /\ beams' = {}
               /\ UNCHANGED splits_sum
          ELSE /\ beams' = new_beams_folded(new_beams_of(manifold, beams))
               /\ splits_sum' = (splits_sum + splits_of(manifold, beams)) % (U64Max + 1)
               /\ UNCHANGED d7_pc
    /\ UNCHANGED manifold
    /\ UNCHANGED <<day8_vars, day1_vars, day5_vars>>

\* walker.step() returns None, its beams taken, and part2 returns
\* Ok(splits_sum).
Day7Return ==
    /\ d7_pc = "walking"
    /\ AtLastRow
    /\ beams' = {}
    /\ d7_pc' = "done"
    /\ UNCHANGED <<manifold, splits_sum>>
    /\ UNCHANGED <<day8_vars, day1_vars, day5_vars>>

NextDay7 == Day7Step \/ Day7Return

SpecDay7 == InitDay7 /\ [][NextDay7]_vars

\* ------------------------------------------------------------------ properties
\* No two positions of s hold the same value.
Distinct(s) == \A a, b \in DOMAIN s : a # b => s[a] # s[b]

\* The positions of the circuits of c that hold box j, and the first of them.
Holders(c, j) == {k \in DOMAIN c : j \in c[k]}
FirstHolder(c, j) == CHOOSE k \in Holders(c, j) : \A l \in Holders(c, j) : k <= l

\* The sequence s without the positions in K.
Drop(s, K) ==
    LET keep == DOMAIN s \ K
        nth(p) == CHOOSE k \in keep : Cardinality({l \in keep : l < k}) = p - 1
    IN [p \in 1..Cardinality(keep) |-> s[nth(p)]]

RECURSIVE SumOfSizes(_)
SumOfSizes(c) == IF c = <<>> THEN 0 ELSE Cardinality(Head(c)) + SumOfSizes(Tail(c))

\* The circuits the running entry point holds after merging the first k entries
\* of the distance table, from its own starting list.
RECURSIVE CircuitsAfter(_)
CircuitsAfter(k) ==
    IF k = 0
    THEN (IF mode = "part1" THEN <<>> ELSE singletons(boxes))
    ELSE LET before == CircuitsAfter(k - 1)
             merged == merge_boxes(before, J1(k), J2(k))
         IN IF merged.ok THEN merged.val ELSE before

\* The entry point has built its distance table and has not panicked.
TableBuilt == pc \in {"p1_loop", "p2_loop", "done"}

\* The step is a call merge_boxes(circuits, J1(consumed + 1), J2(consumed + 1)).
MergeCall == pc \in {"p1_loop", "p2_loop"} /\ consumed' = consumed + 1

\* The state follows a merge call, and nothing has reordered circuits since.
AfterMergeCall == pc \in {"p1_loop", "p2_loop"} /\ consumed >= 1

\* The boxes that were an end of a consumed entry.
Touched == {J1(k) : k \in 1..consumed} \cup {J2(k) : k \in 1..consumed}

\* C1: at every point of part1's loop, and of part2's loop on pairwise
\* different boxes, the circuits are pairwise disjoint and cover exactly the
\* boxes touched so far (part1: the ends of the consumed entries, their number
\* being the sum of the circuit sizes; part2: every box).
C1_Partition ==
    (TableBuilt /\ (mode = "part1" \/ Distinct(boxes))) =>
        /\ \A k, l \in DOMAIN circuits :
              k # l => circuits[k] \cap circuits[l] = {}
        /\ UNION Range(circuits) = (IF mode = "part1" THEN Touched ELSE Range(boxes))
        /\ mode = "part1" => SumOfSizes(circuits) = Cardinality(Touched)

C1_Witness ==
    /\ mode = "part1" /\ pc = "p1_loop" /\ consumed >= 3
    /\ Len(circuits) >= 2
    /\ \E k \in DOMAIN circuits : Cardinality(circuits[k]) >= 3

\* C2: a merge of two boxes held by two different circuits leaves one circuit
\* less: one circuit that is the union of the two, and every other circuit as
\* it was and in the same order.
C2_MergeDifferent ==
    [][ (/\ MergeCall
         /\ Holders(circuits, J1(consumed + 1)) # {}
         /\ Holders(circuits, J2(consumed + 1)) # {}
         /\ FirstHolder(circuits, J1(consumed + 1)) # FirstHolder(circuits, J2(consumed + 1)))
        => LET f == FirstHolder(circuits, J1(consumed + 1))
               s == FirstHolder(circuits, J2(consumed + 1))
           IN /\ Len(circuits') = Len(circuits) - 1
              /\ \E m \in DOMAIN circuits' :
                    /\ circuits'[m] = circuits[f] \cup circuits[s]
                    /\ Drop(circuits', {m}) = Drop(circuits, {f, s}) ]_vars

\* The last merge joined two circuits, the second box's circuit coming first,
\* with a third circuit standing by.
C2_Witness ==
    /\ AfterMergeCall
    /\ LET before == CircuitsAfter(consumed - 1)
       IN /\ Holders(before, J1(consumed)) # {}
          /\ Holders(before, J2(consumed)) # {}
          /\ FirstHolder(before, J2(consumed)) < FirstHolder(before, J1(consumed))
          /\ Len(before) >= 3
          /\ Len(circuits) = Len(before) - 1

\* C3: for any two boxes, merge_boxes succeeds, changes nothing when one
\* circuit already holds both, and applied a second time changes nothing.
C3_Idempotent ==
    TableBuilt =>
        \A a, b \in Universe :
            LET once == merge_boxes(circuits, a, b)
                twice == merge_boxes(once.val, a, b)
            IN /\ once.ok
               /\ (Holders(circuits, a) \cap Holders(circuits, b) # {}
                      => once.val = circuits)
               /\ twice.ok
               /\ twice.val = once.val

\* The last merge call found both boxes in one circuit and left the list alone.
C3_Witness ==
    /\ AfterMergeCall
    /\ LET before == CircuitsAfter(consumed - 1)
       IN /\ Holders(before, J1(consumed)) \cap Holders(before, J2(consumed)) # {}
          /\ circuits = before
          /\ Len(circuits) >= 2
          /\ Distinct(boxes)

\* C4: a merge of two boxes that no circuit holds appends one circuit of
\* exactly those two boxes and leaves the existing circuits as they were.
C4_MergeNeither ==
    [][ (/\ MergeCall
         /\ Holders(circuits, J1(consumed + 1)) = {}
         /\ Holders(circuits, J2(consumed + 1)) = {})
        => /\ Len(circuits') = Len(circuits) + 1
           /\ SubSeq(circuits', 1, Len(circuits)) = circuits
           /\ circuits'[Len(circuits')] = {J1(consumed + 1), J2(consumed + 1)}
           /\ Cardinality(circuits'[Len(circuits')]) = 2 ]_vars

\* The last merge appended a circuit of two boxes behind an existing one.
C4_Witness ==
    /\ AfterMergeCall
    /\ LET before == CircuitsAfter(consumed - 1)
       IN /\ Holders(before, J1(consumed)) = {}
          /\ Holders(before, J2(consumed)) = {}
          /\ Len(before) >= 1
          /\ Len(circuits) = Len(before) + 1

\* C5: a merge of two boxes of which exactly one is held by a circuit adds the
\* other box to that circuit, which grows by one; the number of circuits and
\* every other circuit stay as they were.
C5_MergeOne ==
    [][ (/\ MergeCall
         /\ (Holders(circuits, J1(consumed + 1)) = {})
              # (Holders(circuits, J2(consumed + 1)) = {}))
        => LET held == IF Holders(circuits, J1(consumed + 1)) # {}
                       THEN J1(consumed + 1) ELSE J2(consumed + 1)
               other == IF Holders(circuits, J1(consumed + 1)) # {}
                        THEN J2(consumed + 1) ELSE J1(consumed + 1)
               k == FirstHolder(circuits, held)
           IN /\ Len(circuits') = Len(circuits)
              /\ circuits'[k] = circuits[k] \cup {other}
              /\ Cardinality(circuits'[k]) = Cardinality(circuits[k]) + 1
              /\ \A l \in DOMAIN circuits : l # k => circuits'[l] = circuits[l] ]_vars

\* The last merge added the first box of the entry to the circuit of the
\* second, with another circuit standing by.
C5_Witness ==
    /\ AfterMergeCall
    /\ LET before == CircuitsAfter(consumed - 1)
       IN /\ Holders(before, J1(consumed)) = {}
          /\ Holders(before, J2(consumed)) # {}
          /\ Len(before) >= 2
          /\ Len(circuits) = Len(before)
          /\ J1(consumed) \in UNION Range(circuits)

\* C6: for n pairwise different boxes the distance table has n*(n-1)/2
\* entries, one for every unordered pair of different positions, none for a
\* box with itself, each with the squared Euclidean distance of its two boxes.
C6_AllPairsOnce ==
    (TableBuilt /\ Distinct(boxes)) =>
        LET n == Len(boxes)
        IN /\ 2 * Len(distances) = n * (n - 1)
           /\ \A a, b \in 1..n :
                 a < b => Cardinality({k \in DOMAIN distances :
                                          {distances[k].i, distances[k].j} = {a, b}}) = 1
           /\ \A k \in DOMAIN distances :
                 LET p == boxes[distances[k].i]
                     q == boxes[distances[k].j]
                 IN /\ distances[k].i # distances[k].j
                    /\ distances[k].d = (p.x - q.x) * (p.x - q.x)
                                        + (p.y - q.y) * (p.y - q.y)
                                        + (p.z - q.z) * (p.z - q.z)

C6_Witness ==
    /\ pc = "p2_loop" /\ Distinct(boxes) /\ Len(boxes) >= 4
    /\ Len(distances) >= 6

\* C7: the distance table is ascending by distance, and entries of equal
\* distance stand in the order the two loops produced them (outer position
\* ascending, then inner position ascending).
C7_StableAscending ==
    TableBuilt =>
        \A p, q \in DOMAIN distances :
            p < q =>
                /\ distances[p].d <= distances[q].d
                /\ distances[p].d = distances[q].d =>
                      \/ distances[p].i < distances[q].i
                      \/ /\ distances[p].i = distances[q].i
                         /\ distances[p].j < distances[q].j

\* A table whose first two entries have the same distance, and a later pair
\* of equal entries from the same outer position.
C7_Witness ==
    /\ pc = "p1_loop" /\ Len(distances) >= 6
    /\ distances[1].d = distances[2].d
    /\ \E p \in DOMAIN distances :
          /\ p + 1 \in DOMAIN distances
          /\ distances[p].d = distances[p + 1].d
          /\ distances[p].i = distances[p + 1].i

\* The smaller of two numbers.
Min(a, b) == IF a <= b THEN a ELSE b

\* The number of circuits of c that have n boxes.
SizeCount(c, n) == Cardinality({k \in DOMAIN c : Cardinality(c[k]) = n})

\* v is the product of the sizes of three circuits of c than which no other
\* circuit of c is larger.
IsTop3Product(c, v) ==
    \E k1, k2, k3 \in DOMAIN c :
        /\ k1 # k2 /\ k1 # k3 /\ k2 # k3
        /\ \A l \in DOMAIN c \ {k1, k2, k3} :
              /\ Cardinality(c[l]) <= Cardinality(c[k1])
              /\ Cardinality(c[l]) <= Cardinality(c[k2])
              /\ Cardinality(c[l]) <= Cardinality(c[k3])
        /\ v = Cardinality(c[k1]) * Cardinality(c[k2]) * Cardinality(c[k3])

C9_FewerThanThreeIsError ==
    (mode = "part1" /\ pc = "done" /\ Len(circuits) < 3) => ~ret.ok

\* C10: a value returned by part2 is the product of the x coordinates of the
\* two boxes of the last consumed entry, and the merge of that entry took the
\* list from two circuits to one.
C10_Part2FinalMerge ==
    (mode = "part2" /\ pc = "done" /\ ret.ok) =>
        /\ consumed >= 1
        /\ Len(CircuitsAfter(consumed - 1)) = 2
        /\ Len(CircuitsAfter(consumed)) = 1
        /\ circuits = CircuitsAfter(consumed)
        /\ ret.val = boxes[distances[consumed].i].x * boxes[distances[consumed].j].x

\* part2 returned a value after consuming entries whose merge changed nothing.
C10_Witness ==
    /\ mode = "part2" /\ pc = "done" /\ ret.ok
    /\ \E k \in 1..(consumed - 1) : CircuitsAfter(k) = CircuitsAfter(k - 1)
    /\ \E k \in 1..(consumed - 1) :
          boxes[distances[k].i].x * boxes[distances[k].j].x # ret.val

\* Some position of the input is in no entry of the distance table.
SomeBoxWithoutEntry ==
    \E p \in DOMAIN boxes :
        \A k \in DOMAIN distances : distances[k].i # p /\ distances[k].j # p

\* C11: part2 returns the error "no more boxes to connect" exactly when the
\* distance table is used up while the list is not one circuit; it then has
\* returned no value and has not panicked, and an input of two or more boxes
\* with a box that no entry of the table reaches ends this way.
C11_Exhaustion ==
    /\ mode = "part2" => pc # "panicked"
    /\ (mode = "part2" /\ pc = "done") =>
          /\ (Len(circuits) # 1 =>
                 /\ consumed = Len(distances)
                 /\ ret = Err("no more boxes to connect"))
          /\ (Len(circuits) = 1 => ret.err # "no more boxes to connect")
          /\ (Len(boxes) >= 2 /\ SomeBoxWithoutEntry) =>
                 ret = Err("no more boxes to connect")

\* part2 ran out of entries after merging some, a repeated box left alone.
C11_Witness ==
    /\ mode = "part2" /\ pc = "done"
    /\ ret = Err("no more boxes to connect")
    /\ consumed >= 2 /\ Len(circuits) = 2

\* C16 as stated: every entry part2 consumes changes the list of circuits.
C16_EveryEdgeChanges ==
    [][ (pc = "p2_loop" /\ consumed' = consumed + 1) => circuits' # circuits ]_vars

\* C16, amended: an entry part2 consumes either joins two different circuits,
\* leaving one circuit less, or finds both boxes in one circuit and changes
\* nothing; the first entry consumed and the entry that leaves one circuit
\* always change the list.
C16_ChangeOrNoOp ==
    [][ (pc = "p2_loop" /\ consumed' = consumed + 1) =>
          LET h1 == Holders(circuits, J1(consumed + 1))
              h2 == Holders(circuits, J2(consumed + 1))
          IN /\ h1 # {} /\ h2 # {}
             /\ IF FirstHolder(circuits, J1(consumed + 1))
                     = FirstHolder(circuits, J2(consumed + 1))
                THEN circuits' = circuits
                ELSE Len(circuits') = Len(circuits) - 1
             /\ consumed = 0 => circuits' # circuits
             /\ Len(circuits') = 1 => circuits' # circuits ]_vars

\* part2 on pairwise different boxes returned a value after an entry whose
\* merge changed nothing.
C16_Witness ==
    /\ mode = "part2" /\ pc = "done" /\ ret.ok /\ Distinct(boxes)
    /\ \E k \in 2..(consumed - 1) : CircuitsAfter(k) = CircuitsAfter(k - 1)

\* Two boxes are in one circuit of c.
Together(c, a, b) == \E k \in DOMAIN c : a \in c[k] /\ b \in c[k]

\* C17: no step of part1 or part2 takes two boxes of one circuit apart, and
\* no circuit is ever empty.
C17_NeverSplit ==
    [][ /\ \A k \in DOMAIN circuits : circuits[k] # {}
        /\ \A k \in DOMAIN circuits' : circuits'[k] # {}
        /\ \A a, b \in Range(boxes) :
              Together(circuits, a, b) => Together(circuits', a, b) ]_vars

\* part1 has sorted its circuits, one of them of four boxes or more that were
\* joined from two circuits.
C17_Witness ==
    /\ mode = "part1" /\ pc = "done" /\ Len(circuits) >= 2
    /\ \E k \in DOMAIN circuits : Cardinality(circuits[k]) >= 4

\* The entries among the first k whose merge changed the list of circuits.
ChangingMerges(k) == {m \in 1..k : CircuitsAfter(m) # CircuitsAfter(m - 1)}

\* part2 was called with two or more pairwise different boxes.
Part2OnDistinct == mode = "part2" /\ Distinct(boxes) /\ Len(boxes) >= 2

\* part2 has returned a value, with one circuit left, after exactly
\* Len(boxes) - 1 changing merges and no more entries than there are pairs.
Part2ReturnedValue ==
    /\ pc = "done" /\ ret.ok
    /\ Len(circuits) = 1
    /\ Cardinality(ChangingMerges(consumed)) = Len(boxes) - 1
    /\ 2 * consumed <= Len(boxes) * (Len(boxes) - 1)

\* The steps part2 can still take at most: the start, one per entry of the
\* table not yet consumed, and the return.
Part2StepsLeft ==
    IF pc = "called" THEN (Len(boxes) * (Len(boxes) - 1)) \div 2 + 2
    ELSE IF pc = "p2_loop" THEN (Len(boxes) * (Len(boxes) - 1)) \div 2 + 1 - consumed
    ELSE 0

\* C18: part2 on two or more pairwise different boxes terminates with a
\* value: it does not panic, in its loop it can always take a step and every
\* step it can take lowers the number of steps left, which never falls below
\* zero, and once it has returned, the value follows exactly Len(boxes) - 1
\* merges that changed the list and at most Len(boxes) * (Len(boxes) - 1) / 2
\* consumed entries.
C18_Part2Terminates ==
    Part2OnDistinct =>
        /\ pc # "panicked"
        /\ Part2StepsLeft >= 0
        /\ pc = "done" => Part2ReturnedValue
        /\ pc = "p2_loop" =>
              /\ ENABLED Next
              /\ ~ENABLED (Next /\ Part2StepsLeft' >= Part2StepsLeft)

\* part2 returned a value for six different boxes.
C18_Witness ==
    /\ Part2OnDistinct /\ pc = "done" /\ ret.ok
    /\ Len(boxes) = 6 /\ consumed > 5

\* C12: on the sample input part1 with 10 connections returns 40 and part2
\* returns 25272.
C12_Sample ==
    (boxes = Sample /\ pc = "done") =>
        /\ (mode = "part1" /\ num_connections = 10) => ret = Ok(40)
        /\ mode = "part2" => ret = Ok(25272)

\* part2 has returned on the sample input.
C12_Witness ==
    /\ boxes = Sample /\ pc = "done" /\ mode = "part2" /\ consumed >= 19

\* The squared Euclidean distance of two locations.
SquaredDistance(p, q) ==
    (p.x - q.x) * (p.x - q.x) + (p.y - q.y) * (p.y - q.y) + (p.z - q.z) * (p.z - q.z)

\* C19: for coordinates that fit u32, Location::distance returns the squared
\* Euclidean distance, and neither a square nor the sum overflows.
C19_DistanceExact ==
    (mode = "distance" /\ pc # "distance_called") =>
        /\ pc = "done"
        /\ ret = Ok(SquaredDistance(boxes[1], boxes[2]))

\* A numeral: an optional "+" and one or more digits, of a value that fits a
\* coordinate.
IsNumeral(s) ==
    LET digits == IF s # <<>> /\ s[1] = "+" THEN Tail(s) ELSE s
    IN  /\ digits # <<>>
        /\ \A k \in DOMAIN digits : IsDigit(digits[k])
        /\ Decimal(digits) <= U32Max

\* Exactly three comma-separated non-negative integers: two commas, and a
\* numeral before, between and after them.
ThreeIntegers(l) ==
    \E a, b \in DOMAIN l :
        /\ a < b
        /\ \A k \in DOMAIN l : l[k] = "," <=> k \in {a, b}
        /\ IsNumeral(SubSeq(l, 1, a - 1))
        /\ IsNumeral(SubSeq(l, a + 1, b - 1))
        /\ IsNumeral(SubSeq(l, b + 1, Len(l)))

\* C13: once the parse loop is over, an input with a line that does not hold
\* exactly three comma-separated non-negative integers (fewer fields, more
\* fields, a non-numeric field) has ended both entry points with the parse
\* error.
C13_MalformedRejected ==
    (/\ mode \in {"part1", "part2"}
     /\ pc # "parsing"
     /\ \E k \in DOMAIN input : ~ThreeIntegers(input[k]))
        => /\ pc = "done"
           /\ ret = Err("failed to parse line")

\* ------------------------------------------------------------------ day 1 properties

\* The clicks of one rotation of rhs from start after which the dial is at 0.
ClicksAtZero(start, rhs) ==
    Cardinality({k \in 1..unsigned_abs(rhs) :
                    (IF rhs < 0 THEN start - k ELSE start + k) % MAX_VALUE = 0})

RECURSIVE TotalClicks(_, _)
TotalClicks(start, lines) ==
    IF lines = <<>> THEN 0
    ELSE ClicksAtZero(start, signed_distance(Head(lines)))
            + TotalClicks((start + signed_distance(Head(lines))) % MAX_VALUE, Tail(lines))

\* C14: part2 returns the number of clicks, over all the rotations of the
\* input applied to a dial starting at 50, after which the dial points at 0.
C14_Part2CountsClicks ==
    /\ d1_pc # "panicked"
    /\ d1_pc = "done" => num_rotations = TotalClicks(50, d1_lines)

\* C20: Dial::new rejects exactly the values of 100 and more; every
\* `dial += rhs` returns, and sets the dial to (old value + rhs) modulo 100,
\* a value in 0..99.
C20_DialArithmetic ==
    [][ /\ d1_pc = "new_called" =>
              (d1_pc' = "no_dial" <=> d1_arg.val >= 100)
        /\ d1_pc = "add_called" =>
              /\ d1_pc' = "dial"
              /\ dial' = (dial + d1_arg.val) % 100
              /\ dial' \in 0..99 ]_vars

\* ------------------------------------------------------------------ day 5 properties

\* The integers covered by the ranges of a list.
Covered(rs) == UNION {rs[k].start..rs[k].end : k \in DOMAIN rs}

\* C15: whatever the order of the input ranges, the combined ranges are
\* pairwise non-intersecting and cover exactly what the input ranges cover,
\* and part2 returns the number of integers covered.
C15_DisjointSameUnion ==
    /\ d5_pc # "panicked"
    /\ d5_pc \in {"combined", "done"} =>
          /\ \A i, j \in DOMAIN ranges :
                i # j => /\ ~do_ranges_intersect(ranges[i], ranges[j])
                         /\ Covered(<<ranges[i]>>) \cap Covered(<<ranges[j]>>) = {}
          /\ Covered(ranges) = Covered(d5_input)
    /\ d5_pc = "done" => d5_ret = Cardinality(Covered(d5_input))

\* An input not in sorted order, with overlapping ranges, combined into two.
C15_Witness ==
    /\ d5_pc = "done"
    /\ Len(d5_input) = 3
    /\ KeyLess(d5_input[3], d5_input[1])
    /\ Len(ranges) = 2
    /\ d5_ret < exact_sum_of_counts(d5_input)

\* ------------------------------------------------------------------ day 7 properties

\* No splitter in the first or the last column of the grid.
NoEdgeSplitter(m) ==
    \A r \in DOMAIN m.grid :
        /\ m.grid[r][1] # "Splitter"
        /\ m.grid[r][Len(m.grid[r])] # "Splitter"

\* The timelines of a particle at (row, col) down to the last row: one on
\* the last row; that of the location below if it is empty; those of its
\* right and left neighbours if it is a splitter.
RECURSIVE Timelines(_, _, _)
Timelines(m, row, col) ==
    IF row + 1 = Len(m.grid) THEN 1
    ELSE IF m.grid[row + 2][col + 1] = "Empty"
         THEN Timelines(m, row + 1, col)
         ELSE Timelines(m, row + 1, col + 1) + Timelines(m, row + 1, col - 1)

\* C21: on a grid with no splitter in its first or last column, part2 never
\* panics; while it walks, its running total is the sum of num_timelines over
\* the beams and no two beams share a position; the value it returns is the
\* number of timelines from the start to the last row (40 on the grid of the
\* tests).
C21_TotalIsTimelines ==
    NoEdgeSplitter(manifold) =>
        /\ d7_pc # "panicked"
        /\ d7_pc = "walking" =>
              /\ splits_sum = timelines_sum(beams)
              /\ \A b1, b2 \in beams : b1.at = b2.at => b1 = b2
              /\ beams # {}
        /\ d7_pc = "done" =>
              /\ splits_sum = Timelines(manifold, manifold.start[1], manifold.start[2])
              /\ manifold = TestManifold => splits_sum = 40

\* Two splitters of one row have sent timelines to the position between
\* them, and the beams are on the last row.
C21_Witness ==
    /\ d7_pc = "walking"
    /\ manifold # TestManifold
    /\ NoEdgeSplitter(manifold)
    /\ AtLastRow
    /\ Cardinality(beams) = 3
    /\ \E b \in beams : b.num_timelines = 2
    /\ splits_sum = 4

====
